---------------------------- MODULE Spec2Model ----------------------------
(***************************************************************************)
(* A model of highwayhash's scalar SipHash-2-4 (scalar_sip_hash.h): the    *)
(* four-word mixing state ScalarSipHashState with its constructor, Update  *)
(* and Finalize, the tree-hash reducer ReduceSipTreeHash, and the          *)
(* streaming entry point ScalarSipHash over the generic driver.            *)
(*                                                                         *)
(* A uint64_t is a tuple of four 16-bit limbs, least significant first:    *)
(* <<l0, l1, l2, l3>> stands for l0 + 2^16*l1 + 2^32*l2 + 2^48*l3.  Every  *)
(* operation on words is computed at the full width of 64 bits.            *)
(***************************************************************************)
EXTENDS Integers, Sequences, FiniteSets, TLC

(***************************************************************************)
(* 64-bit words                                                            *)
(*                                                                         *)
(* The operations on words are functions: like a C++ function with value   *)
(* parameters, a function is applied to the values of its arguments.       *)
(***************************************************************************)

\* The width of uint64_t, and its split into four limbs.
WordBits == 64
LimbBits == WordBits \div 4
Limb == 0..(2^LimbBits - 1)
Word == [1..4 -> Limb]

\* The word written as four groups of four hex digits, most significant first.
W(h3, h2, h1, h0) == <<h0, h1, h2, h3>>

Zero64 == W(0, 0, 0, 0)

\* Limb j (1 = least significant) of v; 0 beyond either end, for the shifts.
LimbAt(v, j) == IF j \in 1..4 THEN v[j] ELSE 0

\* Bit k of the limb a.
LimbBit(a, k) == (a \div 2^k) % 2

\* x ^ y and x | y on bits.
XorBit(x, y) == IF x # y THEN 1 ELSE 0
OrBit(x, y) == IF x = 1 \/ y = 1 THEN 1 ELSE 0

\* x ^ y and x | y on two 4-bit digits.
XorDigit[x \in 0..15, y \in 0..15] ==
    XorBit(x % 2, y % 2) + 2 * XorBit((x \div 2) % 2, (y \div 2) % 2)
    + 4 * XorBit((x \div 4) % 2, (y \div 4) % 2) + 8 * XorBit(x \div 8, y \div 8)

OrDigit[x \in 0..15, y \in 0..15] ==
    OrBit(x % 2, y % 2) + 2 * OrBit((x \div 2) % 2, (y \div 2) % 2)
    + 4 * OrBit((x \div 4) % 2, (y \div 4) % 2) + 8 * OrBit(x \div 8, y \div 8)

\* Hex digit d (0 = least significant) of the limb a.
Digit(a, d) == (a \div 16^d) % 16

\* a ^ b on two limbs, digit by digit.
XorLimb[a \in Limb, b \in Limb] ==
    LET X(d) == XorDigit[Digit(a, d), Digit(b, d)] * 16^d
    IN  X(0) + X(1) + X(2) + X(3)

\* a | b on two limbs, digit by digit.
OrLimb[a \in Limb, b \in Limb] ==
    LET O(d) == OrDigit[Digit(a, d), Digit(b, d)] * 16^d
    IN  O(0) + O(1) + O(2) + O(3)

\* uint64_t a ^ b
Xor64[a \in Word, b \in Word] ==
    << XorLimb[a[1], b[1]], XorLimb[a[2], b[2]],
       XorLimb[a[3], b[3]], XorLimb[a[4], b[4]] >>

\* uint64_t a | b
Or64[a \in Word, b \in Word] ==
    << OrLimb[a[1], b[1]], OrLimb[a[2], b[2]],
       OrLimb[a[3], b[3]], OrLimb[a[4], b[4]] >>

\* The carry out of a sum of two limbs and a carry.
Carry[x \in 0..(2^(LimbBits + 1) - 1)] == x \div 2^LimbBits

\* uint64_t a + b: the sum modulo 2^64 (the carry out of the top limb is lost).
Add64[a \in Word, b \in Word] ==
    LET s1 == a[1] + b[1]
        s2 == a[2] + b[2] + Carry[s1]
        s3 == a[3] + b[3] + Carry[s2]
        s4 == a[4] + b[4] + Carry[s3]
    IN  << s1 % 2^LimbBits, s2 % 2^LimbBits, s3 % 2^LimbBits, s4 % 2^LimbBits >>

\* uint64_t v << n: the bits shifted out at the top are lost.  C++ defines the
\* shift for 0 <= n < 64 only.
ShiftLeft[v \in Word, n \in 0..(WordBits - 1)] ==
    LET q == n \div LimbBits
        r == n % LimbBits
        L(j) == (LimbAt(v, j - q) % 2^(LimbBits - r)) * 2^r
                + (LimbAt(v, j - q - 1) \div 2^(LimbBits - r))
    IN  << L(1), L(2), L(3), L(4) >>

\* uint64_t v >> n: zeros are shifted in at the top.  Defined for 0 <= n < 64.
ShiftRight[v \in Word, n \in 0..(WordBits - 1)] ==
    LET q == n \div LimbBits
        r == n % LimbBits
        L(j) == (LimbAt(v, j + q) \div 2^r)
                + (LimbAt(v, j + q + 1) % 2^r) * 2^(LimbBits - r)
    IN  << L(1), L(2), L(3), L(4) >>

\* const uint8_t* bytes of Update: the sizeof(uint64_t) bytes it reads.
Packet == [1..8 -> 0..255]

\* memcpy(&packet, bytes, sizeof(packet)): eight bytes read as one uint64_t,
\* the first byte least significant (the byte order of the x86 targets).
Load64[b \in Packet] ==
    << b[1] + 256 * b[2], b[3] + 256 * b[4],
       b[5] + 256 * b[6], b[7] + 256 * b[8] >>

\* reinterpret_cast<const uint8_t*>(&hashes[i]): the eight bytes of a uint64_t
\* in memory, in the same byte order.
Bytes64[v \in Word] ==
    << v[1] % 256, v[1] \div 256, v[2] % 256, v[2] \div 256,
       v[3] % 256, v[3] \div 256, v[4] % 256, v[4] \div 256 >>

\* F applied to the value of x: x is evaluated once, as the initializer of a
\* local variable is.
Apply(F(_), x) == CHOOSE r \in { F(y) : y \in { x } } : TRUE

(***************************************************************************)
(* class ScalarSipHashState                                                *)
(***************************************************************************)

\* using Key = uint64_t[2]
MakeKey(k0, k1) == (0 :> k0) @@ (1 :> k1)

\* The four state words of a record that may carry more fields.
Words(m) == [v0 |-> m.v0, v1 |-> m.v1, v2 |-> m.v2, v3 |-> m.v3]

\* The constructor with key[0] and key[1] exchanged in v2 and v3.
ScalarSipHashState_KeySwapped(key) ==
    [ v0 |-> Xor64[W(\h736f, \h6d65, \h7073, \h6575), key[0]],
      v1 |-> Xor64[W(\h646f, \h7261, \h6e64, \h6f6d), key[1]],
      v2 |-> Xor64[W(\h6c79, \h6765, \h6e65, \h7261), key[1]],
      v3 |-> Xor64[W(\h7465, \h6462, \h7974, \h6573), key[0]] ]

\* The constructor with the key left out of v2.
ScalarSipHashState_KeyMissing(key) ==
    [ v0 |-> Xor64[W(\h736f, \h6d65, \h7073, \h6575), key[0]],
      v1 |-> Xor64[W(\h646f, \h7261, \h6e64, \h6f6d), key[1]],
      v2 |-> W(\h6c79, \h6765, \h6e65, \h7261),
      v3 |-> Xor64[W(\h7465, \h6462, \h7974, \h6573), key[1]] ]

\* explicit ScalarSipHashState(const Key& key)
ScalarSipHashState(key) ==
    [ v0 |-> Xor64[W(\h736f, \h6d65, \h7073, \h6575), key[0]],
      v1 |-> Xor64[W(\h646f, \h7261, \h6e64, \h6f6d), key[1]],
      v2 |-> Xor64[W(\h6c79, \h6765, \h6e65, \h7261), key[0]],
      v3 |-> Xor64[W(\h7465, \h6462, \h7974, \h6573), key[1]] ]

\* RotateLeft without the bits that wrap around: a shift.
RotateLeft_ShiftOnly(bits, v) == ShiftLeft[v, bits]

\* RotateLeft with the right part shifted by 63 - bits.
RotateLeft_OffByOne(bits, v) ==
    LET left == ShiftLeft[v, bits]
        right == ShiftRight[v, (WordBits - 1) - bits]
    IN  Or64[left, right]

\* RotateLeft<bits>(v)
RotateLeft(bits, v) ==
    LET left == ShiftLeft[v, bits]
        right == ShiftRight[v, WordBits - bits]
    IN  Or64[left, right]

\* The loop body of Compress in four parts, each on the finished result m of
\* the part before it.  The record carries, besides the four words, the
\* rotations performed so far: <<bits, operand>> each, in the order of the
\* code.

\* v0 += v1; v2 += v3;
RoundAdd(m) ==
    [ m EXCEPT !.v0 = Add64[@, m.v1],
               !.v2 = Add64[@, m.v3] ]

\* v1 = RotateLeft<13>(v1); v3 = RotateLeft<16>(v3); v1 ^= v0; v3 ^= v2;
RoundMix(m) ==
    [ m EXCEPT !.v1 = Xor64[RotateLeft(13, @), m.v0],
               !.v3 = Xor64[RotateLeft(16, @), m.v2],
               !.rots = @ \o << <<13, m.v1>>, <<16, m.v3>> >> ]

\* v0 = RotateLeft<32>(v0); v2 += v1; v0 += v3;
RoundCross(m) ==
    [ m EXCEPT !.v0 = Add64[RotateLeft(32, @), m.v3],
               !.v2 = Add64[@, m.v1],
               !.rots = @ \o << <<32, m.v0>> >> ]

\* v1 = RotateLeft<17>(v1); v3 = RotateLeft<21>(v3); v1 ^= v2; v3 ^= v0;
\* v2 = RotateLeft<32>(v2);
RoundEnd(m) ==
    [ m EXCEPT !.v1 = Xor64[RotateLeft(17, @), m.v2],
               !.v3 = Xor64[RotateLeft(21, @), m.v0],
               !.v2 = RotateLeft(32, @),
               !.rots = @ \o << <<17, m.v1>>, <<21, m.v3>>, <<32, m.v2>> >> ]

\* One pass of the loop body of Compress.
Round(m) == Apply(RoundEnd, Apply(RoundCross, Apply(RoundMix, RoundAdd(m))))

RECURSIVE Compress_OneMore(_, _)
\* Compress with the loop bound i <= rounds: one pass more.
Compress_OneMore(rounds, s) ==
    LET Enter(t) ==
            [ v0 |-> t.v0, v1 |-> t.v1, v2 |-> t.v2, v3 |-> t.v3, rots |-> <<>> ]
    IN  IF rounds = 0 THEN Apply(Round, Apply(Enter, s))
        ELSE Apply(Round, Compress_OneMore(rounds - 1, s))

RECURSIVE Compress(_, _)
\* Compress<rounds>(): the loop body, rounds times.
Compress(rounds, s) ==
    LET Enter(t) ==
            [ v0 |-> t.v0, v1 |-> t.v1, v2 |-> t.v2, v3 |-> t.v3, rots |-> <<>> ]
    IN  IF rounds = 0 THEN Apply(Enter, s)
        ELSE Apply(Round, Compress(rounds - 1, s))

\* Update without its rounds: the packet is only XORed into v3 and v0.
Update_NoRounds(s, bytes) ==
    LET packet == Load64[bytes]
        m == Compress(0, [ s EXCEPT !.v3 = Xor64[@, packet] ])
    IN  [ m EXCEPT !.v0 = Xor64[@, packet] ]

\* Update with the two XORs of the packet exchanged: into v0 before the
\* rounds, into v3 after them.
Update_XorExchanged(s, bytes) ==
    LET packet == Load64[bytes]
        m == Compress(2, [ s EXCEPT !.v0 = Xor64[@, packet] ])
    IN  [ m EXCEPT !.v3 = Xor64[@, packet] ]

\* void Update(const uint8_t* bytes)
Update(s, bytes) ==
    LET packet == Load64[bytes]
        m == Compress(2, [ s EXCEPT !.v3 = Xor64[@, packet] ])
    IN  [ m EXCEPT !.v0 = Xor64[@, packet] ]

\* Finalize with the rounds of Update: 2 instead of 4.
Finalize_TwoRounds(s) ==
    LET Return(m) ==
            [ v0 |-> m.v0, v1 |-> m.v1, v2 |-> m.v2, v3 |-> m.v3,
              rots |-> m.rots,
              ret |-> Xor64[Xor64[m.v0, m.v1], Xor64[m.v2, m.v3]] ]
    IN  Apply(Return, Compress(2, [ s EXCEPT !.v2 = Xor64[@, W(0, 0, 0, \hFF)] ]))

\* uint64_t Finalize(): the state it leaves, and the value it returns.
Finalize(s) ==
    LET Return(m) ==
            [ v0 |-> m.v0, v1 |-> m.v1, v2 |-> m.v2, v3 |-> m.v3,
              rots |-> m.rots,
              ret |-> Xor64[Xor64[m.v0, m.v1], Xor64[m.v2, m.v3]] ]
    IN  Apply(Return, Compress(4, [ s EXCEPT !.v2 = Xor64[@, W(0, 0, 0, \hFF)] ]))

(***************************************************************************)
(* Inputs                                                                  *)
(***************************************************************************)

\* Bounds of the model.
MaxLanes == 2
MaxSize == 16
MaxCalls == 3

\* The key of the SipHash paper's test vectors, the zero key, and a key whose
\* two halves differ in every limb.
RefKey == MakeKey(W(\h0706, \h0504, \h0302, \h0100), W(\h0F0E, \h0D0C, \h0B0A, \h0908))
ZeroKey == MakeKey(Zero64, Zero64)
AltKey == MakeKey(W(\hFFFF, \hFFFF, \hFFFF, \hFFFF), W(\h8000, 0, 0, 1))
Keys == { RefKey, ZeroKey, AltKey }

\* Lane hashes handed to ReduceSipTreeHash.
LaneValues ==
    { Zero64,
      W(\h0100, 0, 0, 0),
      W(\h0706, \h0504, \h0302, \h0100),
      W(\h0F0E, \h0D0C, \h0B0A, \h0908) }

RECURSIVE LaneArrays(_)
\* The arrays of n lanes.
LaneArrays(n) ==
    IF n = 0 THEN { <<>> }
    ELSE { Append(a, x) : a \in LaneArrays(n - 1), x \in LaneValues }

\* The buffer hashed by ScalarSipHash: the bytes 0, 1, ..., size-1.
Ramp(size) == [ k \in 1..size |-> k - 1 ]

\* Packets a caller of the class passes to Update.
CallerPackets == { Bytes64[Zero64], Bytes64[W(\h8000, 0, 0, 1)] }

(***************************************************************************)
(* State                                                                   *)
(***************************************************************************)

VARIABLES
    mode,       \* which entry point runs: "reduce", "hash" or "caller"
    pc,         \* its position: "construct", "loop", "done"
    key,        \* the Key argument
    hashes,     \* ReduceSipTreeHash: the lane array (<<>> otherwise)
    bytes,      \* ScalarSipHash: the buffer (<<>> otherwise)
    size,       \* ScalarSipHash: its size
    i,          \* the loop index
    state,      \* the ScalarSipHashState object: NoState before construction
    ret,        \* the value the last Finalize returned: NoValue before
    calls,      \* history: the member functions called on state, in order
    rots        \* history: the rotations the last call performed

vars == << mode, pc, key, hashes, bytes, size, i, state, ret, calls, rots >>

NoState == [ constructed |-> FALSE ]
NoValue == <<>>

Init ==
    /\ mode \in { "reduce", "hash", "caller" }
    /\ key \in Keys
    /\ hashes \in IF mode = "reduce"
                  THEN UNION { LaneArrays(n) : n \in 1..MaxLanes }
                  ELSE { <<>> }
    /\ size \in IF mode = "hash" THEN 0..MaxSize ELSE { 0 }
    /\ bytes = Ramp(size)
    /\ pc = "construct"
    /\ i = 0
    /\ state = NoState
    /\ ret = NoValue
    /\ calls = <<>>
    /\ rots = <<>>

(***************************************************************************)
(* Calls of the member functions                                           *)
(***************************************************************************)

\* ScalarSipHashState state(key);
CallConstructor ==
    /\ state' = ScalarSipHashState(key)
    /\ calls' = Append(calls, [op |-> "Init", arg |-> key])
    /\ rots' = <<>>
    /\ ret' = ret

\* state.Update(p);
CallUpdate(p) ==
    \E m \in { Update(state, p) } :
        /\ state' = Words(m)
        /\ calls' = Append(calls, [op |-> "Update", arg |-> p])
        /\ rots' = m.rots
        /\ ret' = ret

\* state.Finalize();
CallFinalize ==
    \E m \in { Finalize(state) } :
        /\ state' = Words(m)
        /\ calls' = Append(calls, [op |-> "Finalize", arg |-> <<>>])
        /\ rots' = m.rots
        /\ ret' = m.ret

(***************************************************************************)
(* ReduceSipTreeHash<kNumLanes>(key, hashes)                               *)
(***************************************************************************)

kNumLanes == Len(hashes)

\* The reduction with its loop started at lane 1.
ReduceConstruct_FromOne ==
    /\ mode = "reduce" /\ pc = "construct"
    /\ CallConstructor
    /\ i' = 1
    /\ pc' = "loop"
    /\ UNCHANGED << mode, key, hashes, bytes, size >>

ReduceConstruct ==
    /\ mode = "reduce" /\ pc = "construct"
    /\ CallConstructor
    /\ i' = 0
    /\ pc' = "loop"
    /\ UNCHANGED << mode, key, hashes, bytes, size >>

ReduceUpdate ==
    /\ mode = "reduce" /\ pc = "loop"
    /\ i < kNumLanes
    /\ CallUpdate(Bytes64[hashes[i + 1]])
    /\ i' = i + 1
    /\ UNCHANGED << mode, pc, key, hashes, bytes, size >>

\* The reduction with Finalize inside its loop: called after every pass, too.
ReduceFinalize_InLoop ==
    /\ mode = "reduce" /\ pc = "loop"
    /\ ~(i < kNumLanes) \/ calls[Len(calls)].op = "Update"
    /\ CallFinalize
    /\ pc' = IF i < kNumLanes THEN "loop" ELSE "done"
    /\ UNCHANGED << mode, key, hashes, bytes, size, i >>

ReduceFinalize ==
    /\ mode = "reduce" /\ pc = "loop"
    /\ ~(i < kNumLanes)
    /\ CallFinalize
    /\ pc' = "done"
    /\ UNCHANGED << mode, key, hashes, bytes, size, i >>

(***************************************************************************)
(* ScalarSipHash(key, bytes, size), over the generic driver ComputeHash of *)
(* state_helpers.h: one Update per packet of 8 bytes, the last, short      *)
(* packet padded with zero bytes to 8, then Finalize.                      *)
(***************************************************************************)

kPacketSize == 8

\* ceil(size / 8): the packets the driver reads.
NumPackets(n) == (n + kPacketSize - 1) \div kPacketSize

\* Packet k (from 0) of the buffer; zero bytes beyond its end.
PaddedPacket(b, n, k) ==
    [ j \in 1..kPacketSize |->
        IF k * kPacketSize + j <= n THEN b[k * kPacketSize + j] ELSE 0 ]

HashConstruct ==
    /\ mode = "hash" /\ pc = "construct"
    /\ CallConstructor
    /\ i' = 0
    /\ pc' = "loop"
    /\ UNCHANGED << mode, key, hashes, bytes, size >>

HashUpdate ==
    /\ mode = "hash" /\ pc = "loop"
    /\ i < NumPackets(size)
    /\ CallUpdate(PaddedPacket(bytes, size, i))
    /\ i' = i + 1
    /\ UNCHANGED << mode, pc, key, hashes, bytes, size >>

HashFinalize ==
    /\ mode = "hash" /\ pc = "loop"
    /\ ~(i < NumPackets(size))
    /\ CallFinalize
    /\ pc' = "done"
    /\ UNCHANGED << mode, key, hashes, bytes, size, i >>

(***************************************************************************)
(* A caller of the class itself: the constructor, then the public member   *)
(* functions in any order (the class checks nothing), MaxCalls calls long. *)
(***************************************************************************)

CallerConstruct ==
    /\ mode = "caller" /\ pc = "construct"
    /\ CallConstructor
    /\ pc' = "loop"
    /\ UNCHANGED << mode, key, hashes, bytes, size, i >>

CallerUpdate ==
    /\ mode = "caller" /\ pc = "loop"
    /\ Len(calls) <= MaxCalls
    /\ \E p \in CallerPackets : CallUpdate(p)
    /\ UNCHANGED << mode, pc, key, hashes, bytes, size, i >>

CallerFinalize ==
    /\ mode = "caller" /\ pc = "loop"
    /\ Len(calls) <= MaxCalls
    /\ CallFinalize
    /\ UNCHANGED << mode, pc, key, hashes, bytes, size, i >>

Next ==
    \/ ReduceConstruct
    \/ ReduceUpdate
    \/ ReduceFinalize
    \/ HashConstruct
    \/ HashUpdate
    \/ HashFinalize
    \/ CallerConstruct
    \/ CallerUpdate
    \/ CallerFinalize

Spec == Init /\ [][Next]_vars

(***************************************************************************)
(* Properties                                                              *)
(***************************************************************************)

\* Bit n (0 = least significant) of the word v.
Bit(v, n) == LimbBit(v[(n \div LimbBits) + 1], n % LimbBits)

\* The word whose bit n is B(n).
RECURSIVE LimbOfBits(_, _, _)
LimbOfBits(B(_), base, k) ==
    IF k = LimbBits THEN 0
    ELSE B(base + k) * 2^k + LimbOfBits(B, base, k + 1)

WordOfBits(B(_)) ==
    << LimbOfBits(B, 0, 0), LimbOfBits(B, LimbBits, 0),
       LimbOfBits(B, 2 * LimbBits, 0), LimbOfBits(B, 3 * LimbBits, 0) >>

\* a XOR b, bit by bit.
BitXor(a, b) == WordOfBits(LAMBDA k : (Bit(a, k) + Bit(b, k)) % 2)

\* The last call made on the state object.
LastCall == calls[Len(calls)]
JustConstructed == Len(calls) = 1 /\ LastCall.op = "Init"

\* C1: right after construction from the key (k0, k1) the state is
\* v0 = 0x736f6d6570736575 XOR k0, v1 = 0x646f72616e646f6d XOR k1,
\* v2 = 0x6c7967656e657261 XOR k0, v3 = 0x7465646279746573 XOR k1, whatever
\* the key; for the key of the SipHash paper these are the words of its
\* appendix A.
C1_Construction ==
    JustConstructed =>
        /\ state.v0 = BitXor(W(\h736f, \h6d65, \h7073, \h6575), key[0])
        /\ state.v1 = BitXor(W(\h646f, \h7261, \h6e64, \h6f6d), key[1])
        /\ state.v2 = BitXor(W(\h6c79, \h6765, \h6e65, \h7261), key[0])
        /\ state.v3 = BitXor(W(\h7465, \h6462, \h7974, \h6573), key[1])
        /\ key = RefKey =>
              state = [ v0 |-> W(\h7469, \h6861, \h7371, \h6475),
                        v1 |-> W(\h6b61, \h7f6d, \h656e, \h6665),
                        v2 |-> W(\h6b7f, \h6261, \h6d67, \h7361),
                        v3 |-> W(\h7b6b, \h696e, \h727e, \h6c7b) ]

\* C1's case: a state constructed from a key whose halves differ.
C1_Witness == JustConstructed /\ key = AltKey /\ key[0] # key[1]

\* C10: right after construction the key has cancelled out of v0 XOR v2, of
\* v1 XOR v3 and of the output expression (v0 XOR v1) XOR (v2 XOR v3), which
\* are the same constants for every key.
C10_KeyCancels ==
    JustConstructed =>
        /\ BitXor(state.v0, state.v2) = W(\h1f16, \h0a00, \h1e16, \h1714)
        /\ BitXor(state.v1, state.v3) = W(\h100a, \h1603, \h1710, \h0a1e)
        /\ BitXor(BitXor(state.v0, state.v1), BitXor(state.v2, state.v3))
             = W(\h0f1c, \h1c03, \h0906, \h1d0a)

\* C10's case: a state constructed from a key that is not zero.
C10_Witness == JustConstructed /\ key = RefKey /\ state.v0 # state.v2

(***************************************************************************)
(* The permutation as the specification words it: a list of statements on  *)
(* the registers <<v0, v1, v2, v3>>, with the rotation taken bit by bit.   *)
(***************************************************************************)

\* The 64-bit left rotation of v by n: bit b of v becomes bit (b + n) mod 64.
RotlBits(v, n) == WordOfBits(LAMBDA b : Bit(v, (b - n) % WordBits))

\* a - b modulo 2^64: a plus the complement of b plus one.
Sub64(a, b) ==
    Add64[Add64[a, Xor64[b, W(\hFFFF, \hFFFF, \hFFFF, \hFFFF)]], W(0, 0, 0, 1)]

Registers(s) == << s.v0, s.v1, s.v2, s.v3 >>
OfRegisters(r) == [ v0 |-> r[1], v1 |-> r[2], v2 |-> r[3], v3 |-> r[4] ]

\* One statement <<op, d, x>> on the registers r: register d (from 0) becomes
\* itself plus, minus or XOR register x, or itself rotated by x bits.
Step(st, r) ==
    LET d == st[2] + 1
        x == st[3]
    IN  CASE st[1] = "add"  -> [ r EXCEPT ![d] = Add64[@, r[x + 1]] ]
          [] st[1] = "sub"  -> [ r EXCEPT ![d] = Sub64(@, r[x + 1]) ]
          [] st[1] = "xor"  -> [ r EXCEPT ![d] = Xor64[@, r[x + 1]] ]
          [] st[1] = "rotl" -> [ r EXCEPT ![d] = RotlBits(@, x) ]
          [] st[1] = "rotr" -> [ r EXCEPT ![d] = RotlBits(@, WordBits - x) ]

RECURSIVE Run(_, _, _, _)
\* The registers after the statements lo..hi of prog, in order, from r.
Run(prog, lo, hi, r) ==
    LET mid == (lo + hi) \div 2
        Rest(t) == Run(prog, mid + 1, hi, t)
    IN  IF lo > hi THEN r
        ELSE IF lo = hi THEN Step(prog[lo], r)
        ELSE Apply(Rest, Run(prog, lo, mid, r))

\* v0+=v1; v2+=v3; v1=rotl(v1,13); v3=rotl(v3,16); v1^=v0; v3^=v2;
\* v0=rotl(v0,32); v2+=v1; v0+=v3; v1=rotl(v1,17); v3=rotl(v3,21); v1^=v2;
\* v3^=v0; v2=rotl(v2,32)
SipRound ==
    << <<"add", 0, 1>>, <<"add", 2, 3>>, <<"rotl", 1, 13>>, <<"rotl", 3, 16>>,
       <<"xor", 1, 0>>, <<"xor", 3, 2>>, <<"rotl", 0, 32>>, <<"add", 2, 1>>,
       <<"add", 0, 3>>, <<"rotl", 1, 17>>, <<"rotl", 3, 21>>, <<"xor", 1, 2>>,
       <<"xor", 3, 0>>, <<"rotl", 2, 32>> >>

\* The statements of SipRound undone, last first.
SipRoundInverse ==
    << <<"rotr", 2, 32>>, <<"xor", 3, 0>>, <<"xor", 1, 2>>, <<"rotr", 3, 21>>,
       <<"rotr", 1, 17>>, <<"sub", 0, 3>>, <<"sub", 2, 1>>, <<"rotr", 0, 32>>,
       <<"xor", 3, 2>>, <<"xor", 1, 0>>, <<"rotr", 3, 16>>, <<"rotr", 1, 13>>,
       <<"sub", 2, 3>>, <<"sub", 0, 1>> >>

RECURSIVE Times(_, _)
\* prog, n times over.
Times(prog, n) == IF n = 0 THEN <<>> ELSE prog \o Times(prog, n - 1)

RunAll(prog, r) == Run(prog, 1, Len(prog), r)

\* The state after "v3 ^= p; 2 rounds; v0 ^= p", from the state s.
AbsorbAsSpecified(s, p) ==
    LET In(r) == [ r EXCEPT ![4] = BitXor(@, p) ]
        Out(r) == [ r EXCEPT ![1] = BitXor(@, p) ]
    IN  OfRegisters(Apply(Out, RunAll(Times(SipRound, 2), In(Registers(s)))))

\* The state s with the low 8 bits of v2 flipped.
FlipLowByte(s) ==
    [ s EXCEPT !.v2 = WordOfBits(LAMBDA b : IF b < 8 THEN 1 - Bit(@, b) ELSE Bit(@, b)) ]

\* The state after "v2 ^= 0xFF; 4 rounds", from the state s.
FinishAsSpecified(s) ==
    OfRegisters(RunAll(Times(SipRound, 4), Registers(FlipLowByte(s))))

IsUpdateStep == calls' # calls /\ calls'[Len(calls')].op = "Update"
IsFinalizeStep == calls' # calls /\ calls'[Len(calls')].op = "Finalize"

\* C2: Update(p) takes every state to the one obtained by v3 ^= p, then
\* exactly 2 rounds of the compression permutation, then v0 ^= p, and it
\* returns nothing; from the state of the SipHash paper's key, the packet
\* 0x0706050403020100 gives the words of the paper's appendix A.
C2_Update ==
    [][ IsUpdateStep =>
          /\ state' = AbsorbAsSpecified(state, Load64[calls'[Len(calls')].arg])
          /\ ret' = ret
          /\ ( /\ key = RefKey /\ Len(calls) = 1
               /\ calls'[Len(calls')].arg = <<0, 1, 2, 3, 4, 5, 6, 7>> ) =>
                 state' = [ v0 |-> W(\h4a01, \h7198, \hde0a, \h59e0),
                            v1 |-> W(\h0d52, \hf6f6, \h2a4f, \h59a4),
                            v2 |-> W(\h634c, \hb357, \h7b01, \hfd3d),
                            v3 |-> W(\ha522, \h4d6f, \h55c7, \hd9c8) ] ]_vars

\* C2's case: an Update of a state that has absorbed a packet before, with a
\* packet that is not zero.
C2_Witness ==
    /\ Len(calls) >= 3
    /\ LastCall.op = "Update" /\ Load64[LastCall.arg] # Zero64
    /\ calls[Len(calls) - 1].op = "Update"

\* C3: Finalize() flips the low 8 bits of v2 and no other bit, runs exactly 4
\* rounds of the compression permutation, and returns
\* (v0 XOR v1) XOR (v2 XOR v3) of the state it then has.
C3_Finalize ==
    [][ IsFinalizeStep =>
          /\ state' = FinishAsSpecified(state)
          /\ ret' = BitXor(BitXor(state'.v0, state'.v1),
                           BitXor(state'.v2, state'.v3)) ]_vars

\* C3's case: Finalize has returned the digest of a state that absorbed
\* packets.
C3_Witness ==
    /\ Len(calls) >= 3 /\ LastCall.op = "Finalize"
    /\ calls[Len(calls) - 1].op = "Update"
    /\ ret # NoValue

(***************************************************************************)
(* The Init/Update/Finalize pipeline, as a function of key and packets     *)
(***************************************************************************)

RECURSIVE Absorbed(_, _, _)
\* The state constructed from k after the first n of the packets (words).
Absorbed(k, packets, n) ==
    LET Next1(t) == Words(Update(t, Bytes64[packets[n]]))
    IN  IF n = 0 THEN ScalarSipHashState(k)
        ELSE Apply(Next1, Absorbed(k, packets, n - 1))

\* The digest of the packets under the key k.
Digest(k, packets) ==
    LET Ret(t) == Finalize(t).ret
    IN  Apply(Ret, Absorbed(k, packets, Len(packets)))

\* The calls ReduceSipTreeHash is to make for its first n lanes.
ExpectedCalls(n) ==
    << [op |-> "Init", arg |-> key] >>
    \o [ k \in 1..n |-> [op |-> "Update", arg |-> Bytes64[hashes[k]]] ]

ReduceDone == mode = "reduce" /\ pc = "done"

\* C4: ReduceSipTreeHash(key, lanes[0..N-1]) constructs one state from key,
\* calls Update exactly N times, the i-th call with lanes[i], in increasing
\* index order, then calls Finalize exactly once, and returns that digest,
\* which is the digest of the Init/Update/Finalize pipeline fed the N lanes.
C4_ReduceCalls ==
    mode = "reduce" =>
        /\ pc = "construct" => calls = <<>>
        /\ pc = "loop" => i <= kNumLanes /\ calls = ExpectedCalls(i)
        /\ pc = "done" =>
              /\ i = kNumLanes
              /\ calls = ExpectedCalls(kNumLanes)
                           \o << [op |-> "Finalize", arg |-> <<>>] >>
              /\ ret = Digest(key, hashes)

\* C4's case: a reduction of two different lanes has returned.
C4_Witness ==
    /\ ReduceDone /\ kNumLanes = MaxLanes /\ hashes[1] # hashes[2]
    /\ Len(calls) = kNumLanes + 2

\* The array a with its first two lanes exchanged.
SwapFirstTwo(a) == [ a EXCEPT ![1] = a[2], ![2] = a[1] ]

\* C7: the reduction is sensitive to the order of its lanes: for a key K and
\* lanes a # b, ReduceSipTreeHash(K, [a, b, ...]) differs from
\* ReduceSipTreeHash(K, [b, a, ...]), for every key and every pair of distinct
\* lane values of the model.
C7_OrderSensitive ==
    ( ReduceDone /\ kNumLanes >= 2 /\ hashes[1] # hashes[2] ) =>
        ret # Digest(key, SwapFirstTwo(hashes))

\* C7's case: a reduction of exactly two different lanes has returned.
C7_Witness ==
    ReduceDone /\ kNumLanes = 2 /\ hashes[1] # hashes[2] /\ Len(ret) = 4

(***************************************************************************)
(* Known answers                                                           *)
(***************************************************************************)

\* SipHash-2-4 of the bytes 0, 1, ..., n-1 under RefKey, from the vectors
\* published with the reference implementation (n = 0: 0x726fdb47dd0e0e31;
\* n = 15 is the example of the SipHash paper).
PublishedSizes == { 0, 1, 7, 15 }
PublishedDigest(n) ==
    CASE n = 0  -> W(\h726f, \hdb47, \hdd0e, \h0e31)
      [] n = 1  -> W(\h74f8, \h39c5, \h93dc, \h67fd)
      [] n = 7  -> W(\hab02, \h00f5, \h8b01, \hd137)
      [] n = 15 -> W(\ha129, \hca61, \h49be, \h45e5)

\* The packets of the bytes 0..n-1 as SipHash pads them: zero bytes up to the
\* last byte of the last packet, which is n mod 256; n \div 8 + 1 packets.
SipHashPackets(n) ==
    LET last == 8 * ((n \div 8) + 1)
        B(j) == IF j <= n THEN j - 1 ELSE IF j = last THEN n % 256 ELSE 0
    IN  [ k \in 1..((n \div 8) + 1) |->
            Load64[ << B(8 * k - 7), B(8 * k - 6), B(8 * k - 5), B(8 * k - 4),
                       B(8 * k - 3), B(8 * k - 2), B(8 * k - 1), B(8 * k) >> ] ]

HashDone == mode = "hash" /\ pc = "done"

\* C5 as claimed: under RefKey, ScalarSipHash of the bytes 0..size-1, the
\* packets delivered as the driver contract says (the last one padded with
\* zero bytes), is the published SipHash digest, for size 0, short and long
\* inputs.
C5_DriverMatchesPublished ==
    ( HashDone /\ key = RefKey /\ size \in PublishedSizes ) =>
        ret = PublishedDigest(size)

\* C5, amended: under RefKey, construction, Update of each packet and Finalize
\* give the published SipHash digest when the packets are those of SipHash's
\* own padding, the length of the input in the last byte of the last packet
\* (one packet more than the zero padding when the length is a multiple of
\* 8): 0x726fdb47dd0e0e31 for the empty input, and the vectors of the inputs
\* of 1, 7 and 15 bytes.
C5_KnownAnswers ==
    \A n \in PublishedSizes :
        ( ReduceDone /\ key = RefKey /\ hashes = SipHashPackets(n) ) =>
            ret = PublishedDigest(n)

\* C5's case: the digest of the 15 bytes of the paper's example, two packets.
C5_Witness ==
    /\ ReduceDone /\ key = RefKey /\ hashes = SipHashPackets(15)
    /\ Len(calls) = 4

(***************************************************************************)
(* Lifecycle                                                               *)
(***************************************************************************)

\* Constructed first and once.
ConstructedFirst(c) ==
    c # <<>> => /\ c[1].op = "Init"
                /\ \A k \in 2..Len(c) : c[k].op \in { "Update", "Finalize" }

\* Init, then Updates, then at most one Finalize, which is the last call.
Lifecycle(c) ==
    /\ ConstructedFirst(c)
    /\ \A k \in 1..Len(c) : c[k].op = "Finalize" => k = Len(c)

Finalized == calls # <<>> /\ LastCall.op = "Finalize"

\* C6 as claimed: every state object goes Uninitialized -> Initialized ->
\* Absorbing -> Finalized, and Finalized is terminal: no Update and no
\* Finalize is called on a finalized state.
C6_FinalizedTerminal == (state = NoState <=> calls = <<>>) /\ Lifecycle(calls)

\* C6, amended: every state is constructed from a key before any Update or
\* Finalize.  In each computation of ReduceSipTreeHash the calls are Init, the
\* Updates, then Finalize exactly once, when all lanes were absorbed, and
\* nothing is called after it.  (The class does not make Finalized terminal:
\* see C6_FinalizedTerminal.)
C6_ReduceLifecycle ==
    /\ state = NoState <=> calls = <<>>
    /\ ConstructedFirst(calls)
    /\ mode = "reduce" =>
          /\ Lifecycle(calls)
          /\ Finalized <=> pc = "done"
          /\ Finalized => /\ Len(calls) = kNumLanes + 2
                          /\ ~ENABLED Next

\* C6's case: a reduction has finalized its state after absorbing its lanes.
C6_Witness ==
    /\ mode = "reduce" /\ Finalized
    /\ calls[Len(calls) - 1].op = "Update"

(***************************************************************************)
(* Rotations                                                               *)
(***************************************************************************)

\* Natural numbers below 2^128: eight limbs, least significant first.
Wide(v) == << v[1], v[2], v[3], v[4], 0, 0, 0, 0 >>

\* 2 * x
Double(x) ==
    LET D(j) == (2 * (x[j] % 2^(LimbBits - 1)))
                + (IF j = 1 THEN 0 ELSE x[j - 1] \div 2^(LimbBits - 1))
    IN  << D(1), D(2), D(3), D(4), D(5), D(6), D(7), D(8) >>

\* x \div 2
Halve(x) ==
    LET H(j) == (x[j] \div 2)
                + (IF j = 8 THEN 0 ELSE (x[j + 1] % 2) * 2^(LimbBits - 1))
    IN  << H(1), H(2), H(3), H(4), H(5), H(6), H(7), H(8) >>

RECURSIVE TimesPow2(_, _)
\* x * 2^n
TimesPow2(x, n) ==
    LET Rest(t) == TimesPow2(t, n - (n \div 2))
    IN  IF n = 0 THEN x
        ELSE IF n = 1 THEN Double(x)
        ELSE Apply(Rest, TimesPow2(x, n \div 2))

RECURSIVE DivPow2(_, _)
\* x \div 2^n
DivPow2(x, n) ==
    LET Rest(t) == DivPow2(t, n - (n \div 2))
    IN  IF n = 0 THEN x
        ELSE IF n = 1 THEN Halve(x)
        ELSE Apply(Rest, DivPow2(x, n \div 2))

\* x mod 2^64
Mod64(x) == << x[1], x[2], x[3], x[4], 0, 0, 0, 0 >>

\* x + y, for x and y below 2^64.
Plus(x, y) ==
    LET s1 == x[1] + y[1]
        s2 == x[2] + y[2] + (s1 \div 2^LimbBits)
        s3 == x[3] + y[3] + (s2 \div 2^LimbBits)
        s4 == x[4] + y[4] + (s3 \div 2^LimbBits)
    IN  << s1 % 2^LimbBits, s2 % 2^LimbBits, s3 % 2^LimbBits, s4 % 2^LimbBits,
           s4 \div 2^LimbBits, 0, 0, 0 >>

\* ((v * 2^n) mod 2^64) + (v \div 2^(64 - n))
RotationSum(v, n) ==
    LET Sum(x) == Plus(Mod64(TimesPow2(x, n)), DivPow2(x, WordBits - n))
    IN  Apply(Sum, Wide(v))

\* C8: every rotation performed by Update and Finalize is by 13, 16, 32, 17
\* or 21 bits, so the two shifts of RotateLeft, by n and by 64 - n, are by
\* 1..63 bits, never by 0 or 64; and for the word v it is applied to,
\* RotateLeft gives the 64-bit left rotation of v,
\* ((v * 2^n) mod 2^64) + (v div 2^(64 - n)), bit b of v moving to bit
\* (b + n) mod 64.
C8_Rotations ==
    \A k \in 1..Len(rots) :
        \E n \in { rots[k][1] } : \E v \in { rots[k][2] } :
            /\ n \in { 13, 16, 32, 17, 21 }
            /\ n \in 1..(WordBits - 1) /\ (WordBits - n) \in 1..(WordBits - 1)
            /\ \E r \in { RotateLeft(n, v) } :
                  /\ Wide(r) = RotationSum(v, n)
                  /\ r = RotlBits(v, n)

\* C8's case: the 24 rotations of a Finalize, words with their top bit set
\* among the operands.
C8_Witness ==
    /\ Len(rots) = 24 /\ Finalized
    /\ \E k \in 1..Len(rots) : Bit(rots[k][2], WordBits - 1) = 1

(***************************************************************************)
(* Update is a bijection of the state                                      *)
(***************************************************************************)

\* The state from which "v3 ^= p; 2 rounds; v0 ^= p" leads to the state s:
\* the steps undone, last first.
AbsorbUndone(s, p) ==
    LET In(r) == [ r EXCEPT ![1] = BitXor(@, p) ]
        Out(r) == [ r EXCEPT ![4] = BitXor(@, p) ]
    IN  OfRegisters(Apply(Out, RunAll(Times(SipRoundInverse, 2), In(Registers(s)))))

TopBit == W(\h8000, 0, 0, 0)
LowBit == W(0, 0, 0, 1)

\* s with the bits of mask flipped in the words named in regs.
Flipped(s, regs, mask) ==
    [ v0 |-> IF 0 \in regs THEN Xor64[s.v0, mask] ELSE s.v0,
      v1 |-> IF 1 \in regs THEN Xor64[s.v1, mask] ELSE s.v1,
      v2 |-> IF 2 \in regs THEN Xor64[s.v2, mask] ELSE s.v2,
      v3 |-> IF 3 \in regs THEN Xor64[s.v3, mask] ELSE s.v3 ]

\* States next to s: the top bit flipped in one of its words, in the two
\* words an addition of the round combines, or in all four; the low bit
\* flipped in v0.
Neighbours(s) ==
    { Flipped(s, regs, TopBit) :
        regs \in { {0}, {1}, {2}, {3}, {0, 1}, {2, 3}, {0, 1, 2, 3} } }
    \cup { Flipped(s, {0}, LowBit) }

\* C9: for every packet p, Update(p) is injective on the state: it can be
\* undone (the state before is recovered from the state after and p by the
\* inverse steps), and no state next to the one updated is taken to the same
\* state by the same packet.
C9_UpdateInjective ==
    [][ IsUpdateStep =>
          \E p \in { calls'[Len(calls')].arg } :
              /\ AbsorbUndone(state', Load64[p]) = state
              /\ \A t \in Neighbours(state) :
                    t # state /\ Words(Update(t, p)) # state' ]_vars

\* C9's case: two Updates in a row, the second with a packet that is not
\* zero.
C9_Witness ==
    /\ Len(calls) >= 3 /\ LastCall.op = "Update"
    /\ calls[Len(calls) - 1].op = "Update"
    /\ LastCall.arg # <<0, 0, 0, 0, 0, 0, 0, 0>>

=============================================================================
